---- MODULE Spec2Model ----
(***************************************************************************)
(* Order::Sorter2048 (src/order.hpp): an external sort.  Producer threads   *)
(* push() batches into a bounded concurrent queue; the manager thread       *)
(* (manage_sorting) sorts each batch, pairs two sorted batches into a        *)
(* level-0 run file, and merges equal-level runs upward; finish() stops the  *)
(* manager, drains what is left, merges everything into one run, and         *)
(* execute() streams that run to a callback.                                 *)
(***************************************************************************)
EXTENDS Integers, Sequences, FiniteSets, TLC

VARIABLES
  push_queue,  \* moodycamel::ConcurrentQueue<BatchEntry>: one FIFO per producer
  pushing,     \* per producer: the BatchEntry its push() is still trying to enqueue
  waitroom,    \* std::queue<BatchEntry> of sorted batches
  JQ,          \* std::multiset<Job>: the job registry
  files,       \* the working directory: filename -> the records in the file
  job_idx,     \* next run id
  done,        \* std::atomic<bool> done
  cpc,         \* where the manager thread is in manage_sorting
  fpc,         \* where the owning thread is: pushing phase, finish(), execute()
  ret,         \* the path finish() returned
  delivered,   \* the records execute() handed to the callback, in order
  heap,        \* per batch buffer (new K[]): its allocation state
  pushed,      \* per push() call: the caller's range, as passed
  dequeued,    \* the buffers try_dequeue handed out, in order
  fails,       \* file-open failures so far
  runs0,       \* level-0 runs the manager's run writer has produced
  exec_file    \* the file execute() opened

vars == <<push_queue, pushing, waitroom, JQ, files, job_idx, done, cpc, fpc,
          ret, delivered, heap, pushed, dequeued, fails, runs0, exec_file>>

-----------------------------------------------------------------------------
(* Bounds of the model *)

\* producer threads (main.cpp runs 4)
NumProducers == 2
\* push() calls in a run
MaxPushes == 4
\* records in one pushed range
MaxBatchLen == 2
\* keys are 1..MaxKey
MaxKey == 2
\* batches the queue holds before try_enqueue fails (order.hpp:158 asks for 10)
QueueCap == 2
\* file opens that fail in a run
MaxFail == 1
\* push() calls in a run of SpecLevels
MaxLevelPushes == 8

Producers == 1..NumProducers

-----------------------------------------------------------------------------
(* Records and their order: main.cpp's stintp and compair *)

\* stintp = std::pair<std::array<char,16>, int>: a payload and an integer key
stintp(payload, key) == [first |-> payload, second |-> key]

\* compair::operator(): a strict weak order on the key alone
compair(a, b) == a.second < b.second

\* The ranges a caller may pass to its n-th push(): up to MaxBatchLen records
\* in strictly descending key order (so any range of two or more records is
\* unsorted), the payload naming the call.
InputBatches(n) ==
  {b \in UNION {[1..len -> {stintp(n, k) : k \in 1..MaxKey}] :
                  len \in 0..MaxBatchLen} :
     \A i \in 1..(Len(b) - 1) : b[i].second > b[i + 1].second}

Range(s) == {s[i] : i \in DOMAIN s}

BagOf(s) == [r \in Range(s) |-> Cardinality({i \in DOMAIN s : s[i] = r})]

RECURSIVE Flatten(_)
Flatten(ss) == IF ss = <<>> THEN <<>> ELSE Head(ss) \o Flatten(Tail(ss))

IsSorted(s) == \A i \in 1..(Len(s) - 1) : ~compair(s[i + 1], s[i])

\* std_sort leaving the range as it was pushed
std_sort_skipped(s) == {s}

\* std::sort(from, to, C()): some rearrangement of the range that is ordered
\* by C; which one, among records that compare equal, is unspecified.
std_sort(s) ==
  {t \in [1..Len(s) -> Range(s)] : BagOf(t) = BagOf(s) /\ IsSorted(t)}

-----------------------------------------------------------------------------
(* Jobs and the registry order *)

Job(id, level) == [id |-> id, level |-> level]

\* JobLess with the levels compared the other way round
JobLessLevelDesc(a, b) ==
  IF a.level = b.level THEN a.id > b.id ELSE a.level > b.level

\* Job::operator<
JobLess(a, b) ==
  IF a.level = b.level THEN a.id > b.id ELSE a.level < b.level

\* Job::filename: "<id>_<level>.tmp", one name per (id, level)
filename(j) == <<j.id, j.level>>

\* JQ.begin()
JQ_begin(S) == CHOOSE a \in S : \A b \in S \ {a} : JobLess(a, b)

\* std::next(JQ.begin())
JQ_second(S) == JQ_begin(S \ {JQ_begin(S)})

-----------------------------------------------------------------------------
(* The merges *)

\* merge_to_file writing the head of the first input when the heads are equal
RECURSIVE merge_to_file_stable(_, _)
merge_to_file_stable(b1, b2) ==
  IF b1 # <<>> /\ b2 # <<>>
  THEN IF ~compair(Head(b2), Head(b1))
       THEN <<Head(b1)>> \o merge_to_file_stable(Tail(b1), b2)
       ELSE <<Head(b2)>> \o merge_to_file_stable(b1, Tail(b2))
  ELSE b1 \o b2

RECURSIVE merge_to_file(_, _)
merge_to_file(b1, b2) ==
  IF b1 # <<>> /\ b2 # <<>>
  THEN IF compair(Head(b1), Head(b2))
       THEN <<Head(b1)>> \o merge_to_file(Tail(b1), b2)
       ELSE <<Head(b2)>> \o merge_to_file(b1, Tail(b2))
  ELSE b1 \o b2

\* merge_files with the comparison's arguments swapped
RECURSIVE merge_files_swapped(_, _)
merge_files_swapped(f1, f2) ==
  IF f1 # <<>> /\ f2 # <<>>
  THEN IF compair(Head(f2), Head(f1))
       THEN <<Head(f1)>> \o merge_files_swapped(Tail(f1), f2)
       ELSE <<Head(f2)>> \o merge_files_swapped(f1, Tail(f2))
  ELSE IF f1 # <<>> THEN f1 ELSE f2

RECURSIVE merge_files(_, _)
merge_files(f1, f2) ==
  IF f1 # <<>> /\ f2 # <<>>
  THEN IF compair(Head(f1), Head(f2))
       THEN <<Head(f1)>> \o merge_files(Tail(f1), f2)
       ELSE <<Head(f2)>> \o merge_files(f1, Tail(f2))
  ELSE IF f1 # <<>> THEN f1 ELSE f2

write_batch_to_file(b) == b

-----------------------------------------------------------------------------
(* Batch buffers *)

BatchEntry(buf, data) == [buf |-> buf, data |-> data]

NoBatch == BatchEntry(0, <<>>)

\* new K[n]
Alloc(h, buf) == h @@ (buf :> "allocated")

\* the buffer's records were all written to a run file
Written(h, buf) ==
  [h EXCEPT ![buf] = IF @ = "allocated" THEN "written"
                     ELSE IF @ = "written" THEN "written"
                     ELSE "use_after_free"]

\* delete[]
Delete(h, buf) ==
  [h EXCEPT ![buf] = IF @ = "written" THEN "freed"
                     ELSE IF @ = "allocated" THEN "freed_unwritten"
                     ELSE "double_free"]

-----------------------------------------------------------------------------
(* The ingestion queue *)

QueueSize == Len(Flatten([i \in 1..NumProducers |-> push_queue[i]]))

\* try_dequeue: the oldest batch of some producer
TryDequeue(p, b) ==
  /\ push_queue[p] # <<>>
  /\ b = Head(push_queue[p])
  /\ push_queue' = [push_queue EXCEPT ![p] = Tail(@)]
  /\ dequeued' = Append(dequeued, b.buf)

-----------------------------------------------------------------------------
Init ==
  /\ push_queue = [p \in Producers |-> <<>>]
  /\ pushing = [p \in Producers |-> NoBatch]
  /\ waitroom = <<>>
  /\ JQ = {}
  /\ files = <<>>
  /\ job_idx = 0
  /\ done = FALSE
  /\ cpc = "loop"
  /\ fpc = "run"
  /\ ret = <<>>
  /\ delivered = <<>>
  /\ heap = <<>>
  /\ pushed = <<>>
  /\ dequeued = <<>>
  /\ fails = 0
  /\ runs0 = 0
  /\ exec_file = <<>>

-----------------------------------------------------------------------------
(* push(from, to), called by producer p with the range data *)

\* lines 335-340: the buffer is allocated, the range copied into it, and the
\* first try_enqueue succeeds
PushNow(p, data) ==
  /\ fpc = "run"
  /\ pushing[p] = NoBatch
  /\ QueueSize < QueueCap
  /\ pushed' = Append(pushed, data)
  /\ heap' = Alloc(heap, Len(pushed) + 1)
  /\ push_queue' = [push_queue EXCEPT
                      ![p] = Append(@, BatchEntry(Len(pushed) + 1, data))]
  /\ UNCHANGED <<pushing, waitroom, JQ, files, job_idx, done, cpc, fpc, ret,
                 delivered, dequeued, fails, runs0, exec_file>>

\* PushFull giving up: push returns after the failed try_enqueue
PushFullDrop(p, data) ==
  /\ fpc = "run"
  /\ pushing[p] = NoBatch
  /\ QueueSize >= QueueCap
  /\ pushed' = Append(pushed, data)
  /\ heap' = Alloc(heap, Len(pushed) + 1)
  /\ UNCHANGED <<push_queue, pushing, waitroom, JQ, files, job_idx, done, cpc,
                 fpc, ret, delivered, dequeued, fails, runs0, exec_file>>

\* lines 335-341: the same, but the queue is full: the call keeps the batch
\* and sleeps
PushFull(p, data) ==
  /\ fpc = "run"
  /\ pushing[p] = NoBatch
  /\ QueueSize >= QueueCap
  /\ pushed' = Append(pushed, data)
  /\ heap' = Alloc(heap, Len(pushed) + 1)
  /\ pushing' = [pushing EXCEPT ![p] = BatchEntry(Len(pushed) + 1, data)]
  /\ UNCHANGED <<push_queue, waitroom, JQ, files, job_idx, done, cpc, fpc, ret,
                 delivered, dequeued, fails, runs0, exec_file>>

\* lines 340-342: a later try_enqueue succeeds and push returns; a try that
\* fails changes nothing
PushRetry(p) ==
  /\ pushing[p] # NoBatch
  /\ QueueSize < QueueCap
  /\ push_queue' = [push_queue EXCEPT ![p] = Append(@, pushing[p])]
  /\ pushing' = [pushing EXCEPT ![p] = NoBatch]
  /\ UNCHANGED <<waitroom, JQ, files, job_idx, done, cpc, fpc, ret, delivered,
                 heap, pushed, dequeued, fails, runs0, exec_file>>

-----------------------------------------------------------------------------
(* Files *)

\* std::ofstream{name, binary}: creates the file, or empties an existing one
OpenWrite(fs, name) == (name :> <<>>) @@ fs

WriteAll(fs, name, recs) == (name :> recs) @@ fs

\* std::filesystem::remove
Remove(fs, names) == [n \in DOMAIN fs \ names |-> fs[n]]

\* an std::ifstream opens only a file that exists
Exists(name) == name \in DOMAIN files

-----------------------------------------------------------------------------
(* manage_sorting: the manager thread *)

\* line 174: the loop observes done and the thread ends
ManagerExit ==
  /\ cpc = "loop"
  /\ done
  /\ cpc' = "exited"
  /\ UNCHANGED <<push_queue, pushing, waitroom, JQ, files, job_idx, done, fpc,
                 ret, delivered, heap, pushed, dequeued, fails, runs0, exec_file>>

\* lines 175-179: a batch is dequeued, sorted and staged
StageDequeue ==
  /\ cpc = "loop"
  /\ ~done
  /\ \E p \in Producers : \E b \in Range(push_queue[p]) :
       /\ TryDequeue(p, b)
       /\ \E t \in std_sort(b.data) :
            waitroom' = Append(waitroom, BatchEntry(b.buf, t))
  /\ cpc' = "write"
  /\ UNCHANGED <<pushing, JQ, files, job_idx, done, fpc, ret, delivered, heap,
                 pushed, fails, runs0, exec_file>>

\* line 176: try_dequeue finds nothing
StageEmpty ==
  /\ cpc = "loop"
  /\ ~done
  /\ QueueSize = 0
  /\ cpc' = "write"
  /\ UNCHANGED <<push_queue, pushing, waitroom, JQ, files, job_idx, done, fpc,
                 ret, delivered, heap, pushed, dequeued, fails, runs0, exec_file>>

\* RunWriter taking the two newest batches where the code takes the two oldest
RunWriterNewest ==
  /\ cpc = "write"
  /\ Len(waitroom) > 1
  /\ LET j == Job(job_idx, 0)
         n == Len(waitroom)
         b1 == waitroom[n - 1]
         b2 == waitroom[n]
     IN /\ job_idx' = job_idx + 1
        /\ waitroom' = SubSeq(waitroom, 1, n - 2)
        /\ files' = WriteAll(files, filename(j), merge_to_file(b1.data, b2.data))
        /\ heap' = Delete(Delete(Written(Written(heap, b1.buf), b2.buf),
                                 b1.buf), b2.buf)
        /\ JQ' = JQ \cup {j}
  /\ runs0' = runs0 + 1
  /\ cpc' = "balance"
  /\ UNCHANGED <<push_queue, pushing, done, fpc, ret, delivered, pushed,
                 dequeued, fails, exec_file>>

\* lines 180-199: two staged batches are merged into a new level-0 run
RunWriter ==
  /\ cpc = "write"
  /\ Len(waitroom) > 1
  /\ LET j == Job(job_idx, 0)
         b1 == waitroom[1]
         b2 == waitroom[2]
     IN /\ job_idx' = job_idx + 1
        /\ waitroom' = Tail(Tail(waitroom))
        /\ files' = WriteAll(files, filename(j), merge_to_file(b1.data, b2.data))
        /\ heap' = Delete(Delete(Written(Written(heap, b1.buf), b2.buf),
                                 b1.buf), b2.buf)
        /\ JQ' = JQ \cup {j}
  /\ runs0' = runs0 + 1
  /\ cpc' = "balance"
  /\ UNCHANGED <<push_queue, pushing, done, fpc, ret, delivered, pushed,
                 dequeued, fails, exec_file>>

\* RunWriterFail with the batches taken before the open and dropped
RunWriterFailDrop ==
  /\ cpc = "write"
  /\ Len(waitroom) > 1
  /\ fails < MaxFail
  /\ fails' = fails + 1
  /\ job_idx' = job_idx + 1
  /\ waitroom' = Tail(Tail(waitroom))
  /\ cpc' = "loop"
  /\ UNCHANGED <<push_queue, pushing, JQ, files, done, fpc, ret,
                 delivered, heap, pushed, dequeued, runs0, exec_file>>

\* RunWriterFail leaving the run id of the failed attempt to the next run
RunWriterFailSameId ==
  /\ cpc = "write"
  /\ Len(waitroom) > 1
  /\ fails < MaxFail
  /\ fails' = fails + 1
  /\ cpc' = "loop"
  /\ UNCHANGED <<push_queue, pushing, waitroom, JQ, files, job_idx, done, fpc,
                 ret, delivered, heap, pushed, dequeued, runs0, exec_file>>

\* lines 182-188: the output file cannot be opened; continue
RunWriterFail ==
  /\ cpc = "write"
  /\ Len(waitroom) > 1
  /\ fails < MaxFail
  /\ fails' = fails + 1
  /\ job_idx' = job_idx + 1
  /\ cpc' = "loop"
  /\ UNCHANGED <<push_queue, pushing, waitroom, JQ, files, done, fpc, ret,
                 delivered, heap, pushed, dequeued, runs0, exec_file>>

\* line 180: fewer than two batches staged
RunWriterSkip ==
  /\ cpc = "write"
  /\ Len(waitroom) <= 1
  /\ cpc' = "balance"
  /\ UNCHANGED <<push_queue, pushing, waitroom, JQ, files, job_idx, done, fpc,
                 ret, delivered, heap, pushed, dequeued, fails, runs0, exec_file>>

\* BalancePair comparing the ids where the code compares the levels
BalancePairById ==
  /\ Cardinality(JQ) > 1
  /\ JQ_begin(JQ).id = JQ_second(JQ).id

\* line 200, 203: the two smallest entries exist and share a level
BalancePair ==
  /\ Cardinality(JQ) > 1
  /\ JQ_begin(JQ).level = JQ_second(JQ).level

\* lines 205-239: the pair is merged into a run one level up
BalanceMerge ==
  /\ cpc = "balance"
  /\ BalancePair
  /\ LET job1 == JQ_begin(JQ)
         job2 == JQ_second(JQ)
         merged == Job(job_idx, job1.level + 1)
     IN /\ Exists(filename(job1)) /\ Exists(filename(job2))
        /\ job_idx' = job_idx + 1
        /\ files' = Remove(WriteAll(files, filename(merged),
                                    merge_files(files[filename(job1)],
                                                files[filename(job2)])),
                           {filename(job1), filename(job2)})
        /\ JQ' = (JQ \ {job1, job2}) \cup {merged}
  /\ cpc' = "balance"
  /\ UNCHANGED <<push_queue, pushing, waitroom, done, fpc, ret, delivered, heap,
                 pushed, dequeued, fails, runs0, exec_file>>

\* lines 213-222: the merged file cannot be opened for writing; the entries
\* go back and the while loop continues
BalanceFailWrite ==
  /\ cpc = "balance"
  /\ BalancePair
  /\ fails < MaxFail
  /\ fails' = fails + 1
  /\ job_idx' = job_idx + 1
  /\ JQ' = (JQ \ {JQ_begin(JQ), JQ_second(JQ)}) \cup {JQ_begin(JQ), JQ_second(JQ)}
  /\ cpc' = "balance"
  /\ UNCHANGED <<push_queue, pushing, waitroom, files, done, fpc, ret, delivered,
                 heap, pushed, dequeued, runs0, exec_file>>

\* lines 213-235: the merged file is open, a source cannot be opened for
\* reading; the entries go back and the while loop continues
BalanceFailRead ==
  /\ cpc = "balance"
  /\ BalancePair
  /\ LET job1 == JQ_begin(JQ)
         job2 == JQ_second(JQ)
         merged == Job(job_idx, job1.level + 1)
         missing == ~Exists(filename(job1)) \/ ~Exists(filename(job2))
     IN /\ missing \/ fails < MaxFail
        /\ fails' = IF missing THEN fails ELSE fails + 1
        /\ job_idx' = job_idx + 1
        /\ files' = OpenWrite(files, filename(merged))
        /\ JQ' = (JQ \ {job1, job2}) \cup {job1, job2}
  /\ cpc' = "balance"
  /\ UNCHANGED <<push_queue, pushing, waitroom, done, fpc, ret, delivered, heap,
                 pushed, dequeued, runs0, exec_file>>

\* lines 200, 241-243: no equal-level pair at the front; the loop is left
BalanceStop ==
  /\ cpc = "balance"
  /\ ~BalancePair
  /\ cpc' = "sleep"
  /\ UNCHANGED <<push_queue, pushing, waitroom, JQ, files, job_idx, done, fpc,
                 ret, delivered, heap, pushed, dequeued, fails, runs0, exec_file>>

\* line 245
Sleep ==
  /\ cpc = "sleep"
  /\ cpc' = "loop"
  /\ UNCHANGED <<push_queue, pushing, waitroom, JQ, files, job_idx, done, fpc,
                 ret, delivered, heap, pushed, dequeued, fails, runs0, exec_file>>

-----------------------------------------------------------------------------
(* finish(), called by the owning thread once every push() has returned *)

\* line 249
FinishSetDone ==
  /\ fpc = "run"
  /\ \A p \in Producers : pushing[p] = NoBatch
  /\ done' = TRUE
  /\ fpc' = "join"
  /\ UNCHANGED <<push_queue, pushing, waitroom, JQ, files, job_idx, cpc, ret,
                 delivered, heap, pushed, dequeued, fails, runs0, exec_file>>

\* FinishJoin that does not wait for the manager thread
FinishJoinNoWait ==
  /\ fpc = "join"
  /\ fpc' = "drainq"
  /\ UNCHANGED <<push_queue, pushing, waitroom, JQ, files, job_idx, done, cpc,
                 ret, delivered, heap, pushed, dequeued, fails, runs0, exec_file>>

\* line 250: join returns once the manager thread has ended
FinishJoin ==
  /\ fpc = "join"
  /\ cpc = "exited"
  /\ fpc' = "drainq"
  /\ UNCHANGED <<push_queue, pushing, waitroom, JQ, files, job_idx, done, cpc,
                 ret, delivered, heap, pushed, dequeued, fails, runs0,
                 exec_file>>

\* lines 252-258: a batch left in the queue is sorted and staged
FinishDequeue ==
  /\ fpc = "drainq"
  /\ QueueSize > 0
  /\ \E p \in Producers : \E b \in Range(push_queue[p]) :
       /\ TryDequeue(p, b)
       /\ \E t \in std_sort(b.data) :
            waitroom' = Append(waitroom, BatchEntry(b.buf, t))
  /\ UNCHANGED <<pushing, JQ, files, job_idx, done, cpc, fpc, ret, delivered,
                 heap, pushed, fails, runs0, exec_file>>

\* line 252: the queue is empty
FinishQueueEmpty ==
  /\ fpc = "drainq"
  /\ QueueSize = 0
  /\ fpc' = "drainw"
  /\ UNCHANGED <<push_queue, pushing, waitroom, JQ, files, job_idx, done, cpc,
                 ret, delivered, heap, pushed, dequeued, fails, runs0,
                 exec_file>>

\* lines 259-273: the oldest staged batch is written as a level-0 run of its own
FinishWriteBatch ==
  /\ fpc = "drainw"
  /\ Len(waitroom) > 0
  /\ LET b == Head(waitroom)
         j == Job(job_idx, 0)
     IN /\ waitroom' = Tail(waitroom)
        /\ job_idx' = job_idx + 1
        /\ files' = WriteAll(files, filename(j), write_batch_to_file(b.data))
        /\ JQ' = JQ \cup {j}
        /\ heap' = Delete(Written(heap, b.buf), b.buf)
  /\ UNCHANGED <<push_queue, pushing, done, cpc, fpc, ret, delivered, pushed,
                 dequeued, fails, runs0, exec_file>>

\* lines 260-269: the batch is popped, then its file cannot be opened; continue
FinishWriteBatchFail ==
  /\ fpc = "drainw"
  /\ Len(waitroom) > 0
  /\ fails < MaxFail
  /\ fails' = fails + 1
  /\ waitroom' = Tail(waitroom)
  /\ job_idx' = job_idx + 1
  /\ UNCHANGED <<push_queue, pushing, JQ, files, done, cpc, fpc, ret,
                 delivered, heap, pushed, dequeued, runs0, exec_file>>

\* line 259: the waiting room is empty
FinishWaitroomEmpty ==
  /\ fpc = "drainw"
  /\ Len(waitroom) = 0
  /\ fpc' = "merge"
  /\ UNCHANGED <<push_queue, pushing, waitroom, JQ, files, job_idx, done, cpc,
                 ret, delivered, heap, pushed, dequeued, fails, runs0,
                 exec_file>>

\* tgt_level incremented whether or not the levels are equal
tgt_level_incremented(job1, job2) ==
  LET m == IF job1.level > job2.level THEN job1.level ELSE job2.level
  IN m + 1

\* lines 283-286
tgt_level(job1, job2) ==
  LET m == IF job1.level > job2.level THEN job1.level ELSE job2.level
  IN IF job1.level = job2.level THEN m + 1 ELSE m

\* JQ.rbegin(): the last entry
JQ_last(S) == CHOOSE a \in S : \A b \in S \ {a} : JobLess(b, a)

\* FinishMerge taking the first and the last entry instead of the first two
FinishMergeFirstLast ==
  /\ fpc = "merge"
  /\ Cardinality(JQ) > 1
  /\ LET job1 == JQ_begin(JQ)
         job2 == JQ_last(JQ)
         merged == Job(job_idx, tgt_level(job1, job2))
     IN /\ Exists(filename(job1)) /\ Exists(filename(job2))
        /\ job_idx' = job_idx + 1
        /\ files' = Remove(WriteAll(files, filename(merged),
                                    merge_files(files[filename(job1)],
                                                files[filename(job2)])),
                           {filename(job1), filename(job2)})
        /\ JQ' = (JQ \ {job1, job2}) \cup {merged}
  /\ UNCHANGED <<push_queue, pushing, waitroom, done, cpc, fpc, ret, delivered,
                 heap, pushed, dequeued, fails, runs0, exec_file>>

\* lines 274-317: the two smallest entries are merged, whatever their levels
FinishMerge ==
  /\ fpc = "merge"
  /\ Cardinality(JQ) > 1
  /\ LET job1 == JQ_begin(JQ)
         job2 == JQ_second(JQ)
         merged == Job(job_idx, tgt_level(job1, job2))
     IN /\ Exists(filename(job1)) /\ Exists(filename(job2))
        /\ job_idx' = job_idx + 1
        /\ files' = Remove(WriteAll(files, filename(merged),
                                    merge_files(files[filename(job1)],
                                                files[filename(job2)])),
                           {filename(job1), filename(job2)})
        /\ JQ' = (JQ \ {job1, job2}) \cup {merged}
  /\ UNCHANGED <<push_queue, pushing, waitroom, done, cpc, fpc, ret, delivered,
                 heap, pushed, dequeued, fails, runs0, exec_file>>

\* lines 294-302: the merged file cannot be opened for writing; continue
FinishMergeFailWrite ==
  /\ fpc = "merge"
  /\ Cardinality(JQ) > 1
  /\ fails < MaxFail
  /\ fails' = fails + 1
  /\ job_idx' = job_idx + 1
  /\ JQ' = (JQ \ {JQ_begin(JQ), JQ_second(JQ)}) \cup {JQ_begin(JQ), JQ_second(JQ)}
  /\ UNCHANGED <<push_queue, pushing, waitroom, files, done, cpc, fpc, ret,
                 delivered, heap, pushed, dequeued, runs0, exec_file>>

\* lines 294-312: a source cannot be opened for reading; continue
FinishMergeFailRead ==
  /\ fpc = "merge"
  /\ Cardinality(JQ) > 1
  /\ LET job1 == JQ_begin(JQ)
         job2 == JQ_second(JQ)
         merged == Job(job_idx, tgt_level(job1, job2))
         missing == ~Exists(filename(job1)) \/ ~Exists(filename(job2))
     IN /\ missing \/ fails < MaxFail
        /\ fails' = IF missing THEN fails ELSE fails + 1
        /\ job_idx' = job_idx + 1
        /\ files' = OpenWrite(files, filename(merged))
        /\ JQ' = (JQ \ {job1, job2}) \cup {job1, job2}
  /\ UNCHANGED <<push_queue, pushing, waitroom, done, cpc, fpc, ret, delivered,
                 heap, pushed, dequeued, runs0, exec_file>>

\* line 318 with a registry entry: its file's path is returned
FinishReturn ==
  /\ fpc = "merge"
  /\ Cardinality(JQ) = 1
  /\ ret' = filename(JQ_begin(JQ))
  /\ fpc' = "returned"
  /\ UNCHANGED <<push_queue, pushing, waitroom, JQ, files, job_idx, done, cpc,
                 delivered, heap, pushed, dequeued, fails, runs0, exec_file>>

\* A name that is no file of the working directory
NoFile == <<-1, -1>>

\* What dereferencing JQ.begin() of an empty registry can name: any file, or none
EndDeref == DOMAIN files \cup {NoFile}

\* line 318 with an empty registry: JQ.begin() is JQ.end() and is dereferenced;
\* the call crashes or returns whatever name the bytes there spell
FinishReturnEmpty ==
  /\ fpc = "merge"
  /\ JQ = {}
  /\ \/ /\ fpc' = "crashed"
        /\ ret' = ret
     \/ /\ fpc' = "returned"
        /\ ret' \in EndDeref
  /\ UNCHANGED <<push_queue, pushing, waitroom, JQ, files, job_idx, done, cpc,
                 delivered, heap, pushed, dequeued, fails, runs0, exec_file>>

-----------------------------------------------------------------------------
(* execute(f), called after finish() *)

\* lines 321-331: the first entry's file is read to its end into the callback
Execute ==
  /\ fpc = "returned"
  /\ JQ # {}
  /\ Exists(filename(JQ_begin(JQ)))
  /\ exec_file' = filename(JQ_begin(JQ))
  /\ delivered' = files[filename(JQ_begin(JQ))]
  /\ fpc' = "executed"
  /\ UNCHANGED <<push_queue, pushing, waitroom, JQ, files, job_idx, done, cpc,
                 ret, heap, pushed, dequeued, fails, runs0>>

\* lines 322-326: the file cannot be opened; nothing is delivered
ExecuteFail ==
  /\ fpc = "returned"
  /\ JQ # {}
  /\ ~Exists(filename(JQ_begin(JQ))) \/ fails < MaxFail
  /\ fails' = IF Exists(filename(JQ_begin(JQ))) THEN fails + 1 ELSE fails
  /\ exec_file' = filename(JQ_begin(JQ))
  /\ fpc' = "exec_failed"
  /\ UNCHANGED <<push_queue, pushing, waitroom, JQ, files, job_idx, done, cpc,
                 ret, delivered, heap, pushed, dequeued, runs0>>

\* line 321 with an empty registry: JQ.end() is dereferenced again
ExecuteEmpty ==
  /\ fpc = "returned"
  /\ JQ = {}
  /\ \/ /\ fpc' = "crashed"
        /\ UNCHANGED <<exec_file, delivered>>
     \/ \E name \in EndDeref :
          /\ exec_file' = name
          /\ IF Exists(name)
             THEN delivered' = files[name] /\ fpc' = "executed"
             ELSE delivered' = delivered /\ fpc' = "exec_failed"
  /\ UNCHANGED <<push_queue, pushing, waitroom, JQ, files, job_idx, done, cpc,
                 ret, heap, pushed, dequeued, fails, runs0>>

-----------------------------------------------------------------------------
(* The specifications *)

Push ==
  \E p \in Producers :
    \/ /\ Len(pushed) < MaxPushes
       /\ \E data \in InputBatches(Len(pushed) + 1) :
            PushNow(p, data) \/ PushFull(p, data)
    \/ PushRetry(p)

Manager ==
  \/ ManagerExit
  \/ StageDequeue
  \/ StageEmpty
  \/ RunWriter
  \/ RunWriterSkip
  \/ BalanceMerge
  \/ BalanceStop
  \/ Sleep

ManagerFailure ==
  \/ RunWriterFail
  \/ BalanceFailWrite
  \/ BalanceFailRead

\* finish() after line 249
FinishSteps ==
  \/ FinishJoin
  \/ FinishDequeue
  \/ FinishQueueEmpty
  \/ FinishWriteBatch
  \/ FinishWaitroomEmpty
  \/ FinishMerge
  \/ FinishReturn
  \/ FinishReturnEmpty

Finish ==
  \/ FinishSetDone
  \/ FinishSteps

FinishFailure ==
  \/ FinishWriteBatchFail
  \/ FinishMergeFailWrite
  \/ FinishMergeFailRead

Exec ==
  \/ Execute
  \/ ExecuteEmpty

Next ==
  \/ Push
  \/ Manager
  \/ ManagerFailure
  \/ Finish
  \/ FinishFailure
  \/ Exec
  \/ ExecuteFail

\* Every file open may fail, at most MaxFail times in a run
Spec == Init /\ [][Next]_vars

NextNoFail ==
  \/ Push
  \/ Manager
  \/ Finish
  \/ Exec

\* No file open fails
SpecNoFail == Init /\ [][NextNoFail]_vars

\* Pushes of one-record batches, up to MaxLevelPushes of them
PushLevels ==
  \E p \in Producers :
    \/ /\ Len(pushed) < MaxLevelPushes
       /\ \E data \in {<<stintp(Len(pushed) + 1, 1)>>} :
            PushNow(p, data) \/ PushFull(p, data)
    \/ PushRetry(p)

NextLevels ==
  \/ PushLevels
  \/ Manager
  \/ Finish
  \/ Exec

\* No file open fails; more batches, each of one record: enough level-0 runs
\* for the registry to hold runs of several levels
SpecLevels == Init /\ [][NextLevels]_vars

\* Pushes of one-record batches, up to MaxPushes of them
PushOnes ==
  \E p \in Producers :
    \/ /\ Len(pushed) < MaxPushes
       /\ \E data \in {<<stintp(Len(pushed) + 1, 1)>>} :
            PushNow(p, data) \/ PushFull(p, data)
    \/ PushRetry(p)

NextQueue ==
  \/ PushOnes
  \/ Manager
  \/ ManagerFailure
  \/ Finish
  \/ FinishFailure
  \/ Exec
  \/ ExecuteFail

\* One-record batches, file opens may fail; the manager thread, the thread
\* inside finish() and every push() sleeping on a full queue are scheduled
SpecQueueFair ==
  /\ Init /\ [][NextQueue]_vars
  /\ WF_vars(Manager)
  /\ WF_vars(FinishSteps)
  /\ \A p \in Producers : WF_vars(PushRetry(p))

\* No file open fails; the manager thread and the thread inside finish() are
\* scheduled: each takes its next step when it has one
SpecNoFailFair == SpecNoFail /\ WF_vars(Manager) /\ WF_vars(FinishSteps)

-----------------------------------------------------------------------------
(* What was pushed and what came out *)

\* Every record passed to push(), in call order
AllPushed == Flatten(pushed)

FinishReturned == fpc \in {"returned", "executed", "exec_failed"}

\* C1: once every push() and finish() have returned and execute() has read
\* its file, the records delivered are, as a multiset, the records pushed.
C1_Permutation ==
  fpc = "executed" => BagOf(delivered) = BagOf(AllPushed)

\* C2: execute() delivers the records in non-decreasing order: for adjacent
\* records r_i, r_{i+1}, less(r_{i+1}, r_i) is false.
C2_GlobalOrder ==
  fpc = "executed" =>
    \A i \in 1..(Len(delivered) - 1) :
      ~compair(delivered[i + 1], delivered[i])

\* C2's case: four batches, one of them unsorted, went through run files that
\* were merged, and execute() delivered all their records.
C2_Witness ==
  /\ fpc = "executed"
  /\ Len(pushed) = 4
  /\ \E i \in 1..4 : Len(pushed[i]) = 2
  /\ Len(delivered) >= 4
  /\ \E j \in JQ : j.level >= 1

\* C3: finish() with no record ever pushed returns the path of an empty run
\* that the registry holds, and execute() then delivers nothing.
C3_EmptyFinish ==
  (FinishReturned /\ AllPushed = <<>>) =>
    /\ JQ # {}
    /\ ret = filename(JQ_begin(JQ))
    /\ Exists(ret)
    /\ files[ret] = <<>>
    /\ fpc = "executed" => delivered = <<>>

\* C4: a batch that finish() finds staged without a partner leaves the waiting
\* room only by being written, sorted, as a level-0 run of its own, which the
\* registry then holds; and the final output holds every record pushed.
C4_UnpairedBatch ==
  /\ [][(fpc = "drainw" /\ waitroom' # waitroom) =>
          LET b == Head(waitroom)
              j == Job(job_idx, 0)
          IN /\ JQ' = JQ \cup {j}
             /\ filename(j) \in DOMAIN files'
             /\ files'[filename(j)] = b.data
             /\ BagOf(b.data) = BagOf(pushed[b.buf])
             /\ IsSorted(b.data)]_vars
  /\ [](fpc = "executed" => BagOf(delivered) = BagOf(AllPushed))

\* C5: with at least one batch pushed and no file failure, finish() returns;
\* the registry then holds exactly one entry, whose file is the path returned
\* and the file execute() reads; every registry change in finish()'s merge
\* loop replaces the two smallest entries, equal in level or not, by their merge.
C5_ForcedCollapse ==
  /\ []((FinishReturned /\ pushed # <<>>) =>
          /\ Cardinality(JQ) = 1
          /\ ret = filename(JQ_begin(JQ))
          /\ Exists(ret))
  /\ []((fpc = "executed" /\ pushed # <<>>) => exec_file = ret)
  /\ [][(fpc = "merge" /\ JQ' # JQ) =>
          LET a == JQ_begin(JQ)
              b == JQ_second(JQ)
          IN \E m \in JQ' \ JQ :
               /\ JQ' = (JQ \ {a, b}) \cup {m}
               /\ files'[filename(m)] =
                    merge_files(files[filename(a)], files[filename(b)])]_vars
  /\ ((fpc = "join" /\ pushed # <<>>) ~> fpc = "returned")

\* C5's case: three batches all drained by finish() into level-0 runs 0, 1, 2;
\* runs 2 and 1 merged into run 3 of level 1, then run 0 (level 0) and run 3
\* (level 1), of unequal levels, merged into the one entry left.
C5_Witness ==
  /\ fpc = "returned"
  /\ Len(pushed) = 3
  /\ JQ = {Job(4, 1)}
  /\ ret = filename(Job(4, 1))

RECURSIVE Log2Floor(_)
Log2Floor(n) == IF n <= 1 THEN 0 ELSE 1 + Log2Floor(n \div 2)

\* C6: before finish() touches the registry and with no file failure, when
\* the manager has left its balancing loop no two registry entries share a
\* level, the run files on disk are the registry's, and after n level-0 runs
\* were written at most floor(log2(n)) + 1 runs are live (none when n = 0).
C6_BinaryCounter ==
  cpc = "sleep" =>
    /\ \A a \in JQ : \A b \in JQ : a.level = b.level => a = b
    /\ DOMAIN files = {filename(j) : j \in JQ}
    /\ IF runs0 = 0 THEN JQ = {}
       ELSE Cardinality(JQ) <= Log2Floor(runs0) + 1

\* C6's case: three level-0 runs were written; two were merged to a level-1
\* run and the third waits at level 0: two live runs, floor(log2(3)) + 1.
C6_Witness ==
  /\ cpc = "sleep"
  /\ runs0 = 3
  /\ {j.level : j \in JQ} = {0, 1}

\* How often buffer b occurs in the queue, in the dequeue log, in a sleeping push
InQueue(b) ==
  Cardinality({<<p, i>> \in Producers \X (1..QueueCap) :
                 i <= Len(push_queue[p]) /\ push_queue[p][i].buf = b})

TimesDequeued(b) == Cardinality({i \in DOMAIN dequeued : dequeued[i] = b})

Held(b) == Cardinality({p \in Producers : pushing[p].buf = b})

\* C7: push() on a full queue keeps its batch and returns only by enqueueing
\* it; every batch pushed is in exactly one place - held by its push(), once in
\* the queue, or dequeued once - unchanged; a push() sleeping on a full queue
\* returns, and a queued batch is dequeued, while the manager keeps running
\* (or finish() drains).
C7_Backpressure ==
  /\ [](\A b \in 1..Len(pushed) :
          /\ Held(b) + InQueue(b) + TimesDequeued(b) = 1
          /\ \A p \in Producers :
               /\ pushing[p].buf = b => pushing[p].data = pushed[b]
               /\ \A i \in 1..Len(push_queue[p]) :
                    push_queue[p][i].buf = b => push_queue[p][i].data = pushed[b])
  /\ [][\A p \in Producers :
          (pushing[p] # NoBatch /\ pushing'[p] = NoBatch) =>
            /\ QueueSize < QueueCap
            /\ push_queue'[p] = Append(push_queue[p], pushing[p])]_vars
  /\ \A p \in Producers : (pushing[p] # NoBatch) ~> (pushing[p] = NoBatch)
  /\ \A b \in 1..MaxPushes :
       (b <= Len(pushed) /\ InQueue(b) = 1) ~> (TimesDequeued(b) = 1)

\* C7's case: the queue is full and a push() is sleeping with its batch
C7_Witness ==
  /\ QueueSize = QueueCap
  /\ \E p \in Producers : pushing[p] # NoBatch /\ pushing[p].data = pushed[pushing[p].buf]

\* C8: the waiting room and the registry change only in a step of the manager
\* thread while it runs, and in a step of finish() only after the manager has
\* ended; finish() is past its join only when the manager has ended.
C8_SingleOwner ==
  /\ [](fpc \notin {"run", "join"} => cpc = "exited")
  /\ [][(waitroom' # waitroom \/ JQ' # JQ) =>
          \/ cpc # "exited" /\ fpc \in {"run", "join"} /\ fpc' = fpc
          \/ cpc = "exited" /\ cpc' = cpc /\ fpc \in {"drainq", "drainw", "merge"}]_vars

\* C8's case: finish() has set done, the manager has seen it and ended, and
\* finish() is draining a waiting room that still holds a batch
C8_Witness ==
  /\ done
  /\ cpc = "exited"
  /\ fpc = "drainw"
  /\ waitroom # <<>>

\* C9: no buffer is freed twice, freed before it was written out, or used
\* after it was freed; when finish() has returned (the path of a registry
\* entry) every buffer push() allocated has been freed.
C9_BufferOwnership ==
  /\ \A b \in DOMAIN heap : heap[b] \in {"allocated", "written", "freed"}
  /\ (FinishReturned /\ JQ # {}) => \A b \in DOMAIN heap : heap[b] = "freed"

\* C10: a balancer merge that fails on a file open leaves the registry as it
\* was, deletes neither source file, and leaves the balancing loop for this
\* iteration of the manager.
C10_BalancerYields ==
  [][(cpc = "balance" /\ fails' # fails) =>
       /\ JQ' = JQ
       /\ \A j \in JQ : Exists(filename(j)) =>
            /\ filename(j) \in DOMAIN files'
            /\ files'[filename(j)] = files[filename(j)]
       /\ cpc' # "balance"]_vars

-----------------------------------------------------------------------------
(* Failures *)

\* The last attempt to open a file for writing failed: the id it consumed
\* names no run, and no file was opened after it
LastOpenFailed ==
  /\ fails > 0
  /\ \A j \in JQ : j.id # job_idx - 1
  /\ \A n \in DOMAIN files : n[1] # job_idx - 1

\* C11: a file-open failure that lasts to the end never lets finish() return
\* a wrong or incomplete result: when finish() has returned a run although the
\* last open failed, that run still holds every record pushed.
C11_NoIncompleteResult ==
  (fpc = "returned" /\ JQ # {} /\ LastOpenFailed) =>
    /\ ret \in DOMAIN files
    /\ BagOf(files[ret]) = BagOf(AllPushed)

-----------------------------------------------------------------------------
(* The waiting room *)

-----------------------------------------------------------------------------
(* The registry order *)

\* The order the registry is said to keep: level ascending, and among equal
\* levels run id descending
KeyBefore(a, b) ==
  \/ a.level < b.level
  \/ (a.level = b.level /\ a.id > b.id)

\* a and b are the two entries of S with the smallest keys
TwoSmallest(S, a, b) ==
  /\ a \in S /\ b \in S /\ a # b
  /\ \A c \in S \ {a, b} : KeyBefore(a, c) /\ KeyBefore(b, c)

-----------------------------------------------------------------------------
(* Run identity *)

\* C14: run ids only grow and each attempt to create a run, failed or not,
\* consumes one; a new file or registry entry carries the id just consumed,
\* which no entry and no file carried before, so no existing file is ever
\* opened for writing or changed; a step that shrinks the registry is a merge
\* that removes its two inputs from the registry and from the disk and adds
\* one new run.
C14_RunIdentity ==
  [][/\ job_idx' \in {job_idx, job_idx + 1}
     /\ fails' # fails /\ fpc # "returned" => job_idx' = job_idx + 1
     /\ \A j \in JQ' : j.id < job_idx'
     /\ \A n \in DOMAIN files' : n[1] < job_idx'
     /\ \A i \in JQ' : \A j \in JQ' : i.id = j.id => i = j
     /\ \A j \in JQ' \ JQ :
          /\ j.id = job_idx
          /\ job_idx' = job_idx + 1
          /\ filename(j) \in DOMAIN files' \ DOMAIN files
     /\ \A n \in DOMAIN files' \ DOMAIN files :
          /\ n[1] = job_idx
          /\ job_idx' = job_idx + 1
     /\ \A n \in DOMAIN files' \cap DOMAIN files : files'[n] = files[n]
     /\ Cardinality(JQ') < Cardinality(JQ) =>
          \E a \in JQ : \E b \in JQ : \E m \in JQ' :
            /\ a # b
            /\ JQ \ JQ' = {a, b}
            /\ JQ' \ JQ = {m}
            /\ DOMAIN files \ DOMAIN files' = {filename(a), filename(b)}
            /\ DOMAIN files' \ DOMAIN files = {filename(m)}
    ]_vars

\* C14's case: one open failed and consumed an id, and the two level-0 runs
\* written around it were merged into run 3, the only file left.
C14_Witness ==
  /\ fails = 1
  /\ job_idx = 4
  /\ JQ = {Job(3, 1)}
  /\ DOMAIN files = {filename(Job(3, 1))}

-----------------------------------------------------------------------------
(* The merge tie-break *)

\* Where record r stands in out; every record is pushed once, so it stands once
Pos(out, r) == CHOOSE i \in 1..Len(out) : out[i] = r

\* out holds the records of in1 and in2, each input in its own order, and a
\* record of in1 stands before a record of in2 exactly when it is less: on
\* equal keys the record of the second input comes first
TieBreak(in1, in2, out) ==
  /\ BagOf(out) = BagOf(in1 \o in2)
  /\ \A i \in 1..Len(in1) : \A j \in 1..Len(in1) :
       i < j => Pos(out, in1[i]) < Pos(out, in1[j])
  /\ \A i \in 1..Len(in2) : \A j \in 1..Len(in2) :
       i < j => Pos(out, in2[i]) < Pos(out, in2[j])
  /\ \A x \in Range(in1) : \A y \in Range(in2) :
       Pos(out, x) < Pos(out, y) <=> compair(x, y)

\* C15: every run the Run Writer writes from two staged batches, and every run
\* the Level Balancer or finish() merges from two run files, puts a record of
\* its first input before a record of its second only when it is less; records
\* that compare equal come out second input first.
C15_TieBreak ==
  [][/\ (cpc = "write" /\ Len(waitroom') < Len(waitroom)) =>
          TieBreak(waitroom[1].data, waitroom[2].data,
                   files'[filename(Job(job_idx, 0))])
     /\ Cardinality(JQ') < Cardinality(JQ) =>
          \E a \in JQ \ JQ' : \E b \in JQ \ JQ' : \E m \in JQ' \ JQ :
            /\ KeyBefore(a, b)
            /\ TieBreak(files[filename(a)], files[filename(b)],
                        files'[filename(m)])
    ]_vars

\* C15's case: two one-record batches with equal keys were pushed, and
\* execute() delivered the second one's record first.
C15_Witness ==
  /\ fpc = "executed"
  /\ pushed = << <<stintp(1, 1)>>, <<stintp(2, 1)>> >>
  /\ delivered = <<stintp(2, 1), stintp(1, 1)>>

-----------------------------------------------------------------------------
(* Sortedness *)

\* C16: in every reachable state every batch staged in the waiting room is
\* sorted by the comparison, and so is every run file a registry entry names:
\* the Run Writer's level-0 runs, finish()'s single-batch runs and every
\* merged run.
C16_Sortedness ==
  /\ \A i \in 1..Len(waitroom) : IsSorted(waitroom[i].data)
  /\ \A j \in JQ :
       filename(j) \in DOMAIN files => IsSorted(files[filename(j)])

\* C16's case: a two-record batch pushed in descending order is staged, while
\* the registry names a run merged from two other two-record batches.
C16_Witness ==
  /\ Len(waitroom) = 1
  /\ Len(waitroom[1].data) = 2
  /\ \E j \in JQ :
       /\ filename(j) \in DOMAIN files
       /\ Len(files[filename(j)]) = 4

-----------------------------------------------------------------------------
(* Levels *)

\* C17: an entry added to the registry without a merge (by the Run Writer or
\* by finish()'s drain) has level 0; an entry the Level Balancer merges from
\* two entries of level k has level k + 1; an entry finish() merges from
\* entries of levels l1 and l2 has level max(l1, l2), plus one exactly when
\* l1 = l2; so a merged entry's level is never below an input's.
C17_LevelAssignment ==
  [][/\ Cardinality(JQ') > Cardinality(JQ) =>
          \A j \in JQ' \ JQ : j.level = 0
     /\ (cpc = "balance" /\ JQ' # JQ) =>
          \E a \in JQ \ JQ' : \E b \in JQ \ JQ' : \E m \in JQ' \ JQ :
            /\ a # b
            /\ a.level = b.level
            /\ m.level = a.level + 1
     /\ (fpc = "merge" /\ JQ' # JQ) =>
          \E a \in JQ \ JQ' : \E b \in JQ \ JQ' : \E m \in JQ' \ JQ :
            /\ a # b
            /\ m.level >= a.level /\ m.level >= b.level
            /\ a.level = b.level => m.level = a.level + 1
            /\ a.level # b.level => m.level \in {a.level, b.level}
    ]_vars

\* C17's case: finish() wrote three batches as level-0 runs 0, 1 and 2, merged
\* two of them into run 3 of level 1, and merged that with the third into run
\* 4, again of level 1.
C17_Witness ==
  /\ fpc = "merge"
  /\ fails = 0
  /\ runs0 = 0
  /\ JQ = {Job(4, 1)}

-----------------------------------------------------------------------------
(* Failed opens *)

\* C18 as stated: when the Run Writer cannot open its output file, the two
\* oldest batches have left the waiting room and are not put back, and the
\* manager goes to its next iteration.
C18_RunWriterDrops ==
  [][(cpc = "write" /\ fails' # fails) =>
       /\ Len(waitroom) >= 2
       /\ waitroom' = Tail(Tail(waitroom))
       /\ cpc' = "loop"
    ]_vars

\* C18 amended: when the Run Writer cannot open its output file, nothing has
\* left the waiting room: both batches stay staged, in order, with their
\* buffers allocated; the run id of the attempt is consumed, the registry and
\* the files are unchanged, and the manager goes to its next iteration without
\* balancing or sleeping.
C18_RunWriterKeeps ==
  [][(cpc = "write" /\ fails' # fails) =>
       /\ Len(waitroom) >= 2
       /\ waitroom' = waitroom
       /\ \A i \in 1..Len(waitroom) : heap'[waitroom[i].buf] = "allocated"
       /\ job_idx' = job_idx + 1
       /\ JQ' = JQ
       /\ files' = files
       /\ cpc' = "loop"
    ]_vars

\* C18's case: the open of run 0 has just failed with two batches staged, and
\* both are still staged for the next iteration.
C18_Witness ==
  /\ cpc = "loop"
  /\ fails = 1
  /\ job_idx = 1
  /\ JQ = {}
  /\ Len(waitroom) = 2
  /\ ~done

\* C19: when finish()'s drain cannot open the file of a staged batch, the
\* batch is still staged and its buffer still allocated, and the waiting room
\* and the registry are as they were before the attempt.
C19_DrainKeepsBatch ==
  [][(fpc = "drainw" /\ fails' # fails) =>
       /\ waitroom' = waitroom
       /\ JQ' = JQ
       /\ heap'[Head(waitroom).buf] = "allocated"
    ]_vars

\* C20: whenever the manager is between two iterations or asleep, and once
\* finish() has returned, the files in the working directory are exactly the
\* files the registry's entries name, also after a merge given up because an
\* input could not be opened; and once finish() has returned a run, that run's
\* file is the only one.
C20_RegistryDisk ==
  /\ (cpc \in {"loop", "sleep"} \/ FinishReturned) =>
       DOMAIN files = {filename(j) : j \in JQ}
  /\ (FinishReturned /\ JQ # {}) => DOMAIN files = {ret}

=============================================================================
